---- MODULE Spec2Model ----
(***************************************************************************)
(* Model of the Changpei metadata source (src/src/__init__.py): identify   *)
(* (lookup by id, search by title) and download_cover, with the remote     *)
(* API's answers drawn from small sets of response shapes.                 *)
(*                                                                         *)
(* One call runs at a time.  A call advances one outbound request per      *)
(* step; the host may set the abort flag between any two steps.            *)
(***************************************************************************)
EXTENDS Integers, Sequences, FiniteSets, TLC

\* ---------------------------------------------------------------- bounds
MaxId == 2          \* catalog ids are the one-digit strings "1" .. "MaxId"
MaxBooks == 2       \* longest search result list
MaxChapters == 2    \* longest chapter list

\* ------------------------------------------------------ program constants
DefaultTimeout == 30    \* timeout=30 default of identify
SuccessCode == 200      \* data['code'] == 200

Timeouts == {10, DefaultTimeout}

\* ------------------------------------------------------------ JSON values
\* A scalar JSON value used as an id: None (missing key or null), a string
\* (sequence of digits, possibly empty) or an integer (its decimal digits).
None == [t |-> "none", v |-> <<>>]
EmptyStr == [t |-> "str", v |-> <<>>]
StrId(n) == [t |-> "str", v |-> <<n>>]
IntId(n) == [t |-> "int", v |-> <<n>>]

\* what identifiers.get(PROVIDER_ID, None) can give the caller's call
CallerIds == {None, EmptyStr} \cup {StrId(n) : n \in 1..MaxId}

\* Python truthiness of such a value: `if cp_id:`, `if not novel_id:`
Truthy(x) == \/ x.t = "str" /\ x.v # <<>>
             \/ x.t = "int" /\ x.v # <<0>>

\* str(novel_id): an int becomes the string of its digits, a string is kept
Str(x) == [t |-> "str", v |-> x.v]

\* ------------------------------------------------------------ timestamps
\* A public_date value: the text "YYYY<sep>MM<sep>DD HH:MM:SS" reduced to its
\* separator, month and day; sep "none" is a missing key, sep "" the empty
\* string.
DateText(sep, mon, day) == [sep |-> sep, mon |-> mon, day |-> day]
MissingDate == DateText("none", 0, 0)
EmptyDate == DateText("", 0, 0)
GoodDates == {DateText("-", 1, 5), DateText("-", 2, 7)}

\* the unset publish date (None) and a parsed datetime
NoDate == [mon |-> 0, day |-> 0]

DaysIn(mon) == IF mon = 2 THEN 29 ELSE IF mon \in {4, 6, 9, 11} THEN 30 ELSE 31

\* datetime.strptime(publish_date, "%Y-%m-%d %H:%M:%S"): ValueError unless the
\* text has the pattern's separators and the fields are in range
Strptime(d) ==
    IF d.sep = "-" /\ d.mon \in 1..12 /\ d.day \in 1..DaysIn(d.mon)
    THEN [exc |-> FALSE, val |-> [mon |-> d.mon, day |-> d.day]]
    ELSE [exc |-> TRUE, val |-> NoDate]

\* ------------------------------------------------------ response envelopes
\* net:  "ok" | "error"                     open_novisit(...).read() raised
\* json: "invalid" | "scalar" | "array" | "object"   what json.loads gives
\* code: SuccessCode | 500 | 0              0 stands for "no code key"
\* data: "missing" | "null" | "string" | "object"
Envelope(net, json, code, data) == [net |-> net, json |-> json, code |-> code, data |-> data]

FailedEnvelopes ==
    {Envelope("error", "invalid", 0, "missing"),
     Envelope("ok", "invalid", 0, "missing"),
     Envelope("ok", "scalar", 0, "missing"),
     Envelope("ok", "array", 0, "missing"),
     Envelope("ok", "object", 0, "object"),
     Envelope("ok", "object", 500, "object"),
     Envelope("ok", "object", SuccessCode, "missing"),
     Envelope("ok", "object", SuccessCode, "null"),
     Envelope("ok", "object", SuccessCode, "string")}

GoodEnvelope == Envelope("ok", "object", SuccessCode, "object")

\* the unused response of a request that was not issued
NoEnvelope == Envelope("none", "invalid", 0, "missing")

\* `'code' in data and data['code'] == 200 and 'data' in data`, followed for the
\* list endpoints by `and 'list' in data['data']`: "ok", "fail" (the else
\* branch) or "exc" (the test itself raises)
EnvCheck(r, needList) ==
    IF r.json = "scalar" THEN "exc"
    ELSE IF r.json = "array" THEN "fail"
    ELSE IF r.code # SuccessCode THEN "fail"
    ELSE IF r.data = "missing" THEN "fail"
    ELSE IF ~needList THEN "ok"
    ELSE IF r.data = "null" THEN "exc"
    ELSE IF r.data = "string" THEN "fail"
    ELSE IF r.hasList THEN "ok" ELSE "fail"

\* br.open_novisit(url).read().strip() and json.loads(raw.decode('utf-8'))
FetchRaises(r) == r.net = "error" \/ r.json = "invalid"

\* the try block without its except clause: the exception leaves the call
Reraise(r) == r

\* the `except Exception` clause of a try block: the exception is logged and
\* swallowed, what the body did before raising stays done
Catch(r) == [r EXCEPT !.exc = FALSE]

\* --------------------------------------------------------- detail endpoint
\* novel_cover of the data payload: "missing" | "empty" | "url"
DetailResp(e, cover) == [net |-> e.net, json |-> e.json, code |-> e.code, data |-> e.data,
                         novel_cover |-> cover]
DetailResps == {DetailResp(e, "missing") : e \in FailedEnvelopes}
               \cup {DetailResp(GoodEnvelope, c) : c \in {"missing", "empty", "url"}}
NoDetail == DetailResp(NoEnvelope, "missing")

\* the placeholder of `if not cover_url: cover_url = CHANGPEI_NO_BOOKCOVER_URL`
LookupCover(r) == IF r.novel_cover = "url" THEN "url" ELSE "nocover"

\* identify, id branch up to the cover url: exc (an exception left the try
\* body), ok (the success branch was taken) and the record's cover
LookupDetailBody(r) ==
    IF FetchRaises(r) THEN [exc |-> TRUE, ok |-> FALSE, cover |-> "nocover"]
    ELSE LET c == EnvCheck(r, FALSE) IN
         IF c = "exc" THEN [exc |-> TRUE, ok |-> FALSE, cover |-> "nocover"]
         ELSE IF c = "fail" THEN [exc |-> FALSE, ok |-> FALSE, cover |-> "nocover"]
         ELSE IF r.data # "object"
              THEN [exc |-> TRUE, ok |-> FALSE, cover |-> "nocover"]   \* novel_data.get raises
              ELSE [exc |-> FALSE, ok |-> TRUE, cover |-> LookupCover(r)]

\* the record without `mi.identifiers = {PROVIDER_ID: cp_id}`
LookupRecordNoId(id, cover, date) == [id |-> None, cover |-> cover, pubdate |-> date]

\* mi of the id branch: identifiers, cover, pubdate
LookupRecord(id, cover, date) == [id |-> id, cover |-> cover, pubdate |-> date]

\* -------------------------------------------------------- chapter endpoint
\* a chapter entry: kind "object" | "junk" (not a JSON object), order "1" |
\* "2" | "none", type "item" | "volume", public_date a DateText
Chapter(order, type, date) == [kind |-> "object", order |-> order, type |-> type, public_date |-> date]
JunkChapter == [kind |-> "junk", order |-> "none", type |-> "none", public_date |-> MissingDate]

Chapters ==
    {JunkChapter}
    \cup {Chapter("1", "item", d) : d \in GoodDates}
    \cup {Chapter("2", "item", DateText("-", 2, 7)), Chapter("none", "item", DateText("-", 1, 5))}
    \cup {Chapter("1", "item", MissingDate), Chapter("1", "item", DateText("-", 13, 1)),
          Chapter("2", "item", DateText("/", 1, 5)), Chapter("2", "item", DateText("-", 2, 30)),
          Chapter("none", "item", EmptyDate)}
    \cup {Chapter("1", "volume", DateText("-", 1, 5))}

SeqsUpTo(S, n) == UNION {[1..k -> S] : k \in 0..n}

ChapterResp(e, hasList, list) == [net |-> e.net, json |-> e.json, code |-> e.code, data |-> e.data,
                                  hasList |-> hasList, list |-> list]
ChapterResps == {ChapterResp(e, FALSE, <<>>) : e \in FailedEnvelopes}
                \cup {ChapterResp(GoodEnvelope, FALSE, <<>>)}
                \cup {ChapterResp(GoodEnvelope, TRUE, l) : l \in SeqsUpTo(Chapters, MaxChapters)}
NoChapters == ChapterResp(NoEnvelope, FALSE, <<>>)

\* the two `for chapter in chapters` scans: index of the first entry that
\* matches (0 when the scan ends without a match), exc when chapter.get is
\* called on an entry that is no object
RECURSIVE ScanChapters(_, _, _)
ScanChapters(chapters, i, strict) ==
    IF i > Len(chapters) THEN [exc |-> FALSE, idx |-> 0]
    ELSE IF chapters[i].kind # "object" THEN [exc |-> TRUE, idx |-> 0]
    ELSE IF (strict => chapters[i].order = "1") /\ chapters[i].type = "item"
         THEN [exc |-> FALSE, idx |-> i]
         ELSE ScanChapters(chapters, i + 1, strict)

\* the fallback scan alone: the first item whatever its order
FirstItemOnly(chapters) == ScanChapters(chapters, 1, FALSE)

\* first_chapter: the order == '1' item, else the first item
FirstChapter(chapters) ==
    LET a == ScanChapters(chapters, 1, TRUE) IN
    IF a.exc \/ a.idx # 0 THEN a ELSE ScanChapters(chapters, 1, FALSE)

\* publish_date of the chosen chapter, parsed; ValueError is caught inside
ChapterDate(ch) ==
    IF ch.public_date.sep \in {"none", ""} THEN NoDate
    ELSE LET p == Strptime(ch.public_date) IN IF p.exc THEN NoDate ELSE p.val

\* the try body of get_first_chapter_publish_date
ChapterBody(r) ==
    IF FetchRaises(r) THEN [exc |-> TRUE, val |-> NoDate]
    ELSE LET c == EnvCheck(r, TRUE) IN
         IF c = "exc" THEN [exc |-> TRUE, val |-> NoDate]
         ELSE IF c = "fail" THEN [exc |-> FALSE, val |-> NoDate]
         ELSE IF r.list = <<>> THEN [exc |-> FALSE, val |-> NoDate]
         ELSE LET f == FirstChapter(r.list) IN
              IF f.exc THEN [exc |-> TRUE, val |-> NoDate]
              ELSE IF f.idx = 0 THEN [exc |-> FALSE, val |-> NoDate]
              ELSE [exc |-> FALSE, val |-> ChapterDate(r.list[f.idx])]

\* get_first_chapter_publish_date without its except clause
ChapterReraise(r) == r

\* `except Exception as e: ... return None`
ChapterCatch(r) == [exc |-> FALSE, val |-> IF r.exc THEN NoDate ELSE r.val]

get_first_chapter_publish_date(r) == ChapterCatch(ChapterBody(r))

\* --------------------------------------------------------- search endpoint
\* a search hit: kind "object" | "junk", novel_id a JSON id value,
\* novel_cover "missing" | "null" | "plain" | "small" (with the thumbnail
\* suffix)
Book(id, cover) == [kind |-> "object", novel_id |-> id, novel_cover |-> cover]
JunkBook == [kind |-> "junk", novel_id |-> None, novel_cover |-> "missing"]

Books == {JunkBook}
         \cup {Book(id, "plain") : id \in {None, EmptyStr} \cup {StrId(n) : n \in 1..MaxId}}
         \cup {Book(IntId(0), "missing"), Book(IntId(1), "small"), Book(StrId(1), "null")}

SearchResp(e, hasList, list, hasCount) ==
    [net |-> e.net, json |-> e.json, code |-> e.code, data |-> e.data,
     hasList |-> hasList, list |-> list, hasCount |-> hasCount]
SearchResps == {SearchResp(e, FALSE, <<>>, FALSE) : e \in FailedEnvelopes}
               \cup {SearchResp(GoodEnvelope, FALSE, <<>>, TRUE)}
               \cup {SearchResp(Envelope("ok", "object", 500, "object"), TRUE, l, TRUE) :
                        l \in SeqsUpTo(Books, 1)}
               \cup {SearchResp(GoodEnvelope, TRUE, l, FALSE) : l \in SeqsUpTo(Books, 1)}
               \cup {SearchResp(GoodEnvelope, TRUE, l, TRUE) : l \in SeqsUpTo(Books, MaxBooks)}
NoSearch == SearchResp(NoEnvelope, FALSE, <<>>, FALSE)

\* bCover: the default for a missing key, the thumbnail suffix split off
SearchCover(book) ==
    IF book.novel_cover = "missing" THEN "nocover"
    ELSE IF book.novel_cover = "small" THEN "plain"
    ELSE book.novel_cover

\* mi of the search branch
SearchRecord(book) == [id |-> Str(book.novel_id), cover |-> SearchCover(book), pubdate |-> NoDate]

\* `for i, book in enumerate(books)`: the records put so far, and exc when an
\* entry raises (book.get on a non-object, `in` on a null cover)
RECURSIVE SearchLoop(_, _, _)
SearchLoop(books, i, puts) ==
    IF i > Len(books) THEN [exc |-> FALSE, puts |-> puts]
    ELSE LET book == books[i] IN
         IF book.kind # "object" THEN [exc |-> TRUE, puts |-> puts]
         ELSE IF ~Truthy(book.novel_id) THEN SearchLoop(books, i + 1, puts)
         ELSE IF book.novel_cover = "null" THEN [exc |-> TRUE, puts |-> puts]
         ELSE SearchLoop(books, i + 1, Append(puts, SearchRecord(book)))

\* the try body of identify's search branch
SearchBody(r) ==
    IF FetchRaises(r) THEN [exc |-> TRUE, puts |-> <<>>]
    ELSE LET c == EnvCheck(r, TRUE) IN
         IF c = "exc" THEN [exc |-> TRUE, puts |-> <<>>]
         ELSE IF c = "fail" THEN [exc |-> FALSE, puts |-> <<>>]
         ELSE IF ~r.hasCount THEN [exc |-> TRUE, puts |-> <<>>]   \* data['data']['count']
         ELSE SearchLoop(r.list, 1, <<>>)

\* identify, search branch: what it puts on its queue, whether it raises
IdentifySearch(r) == Catch(SearchBody(r))

\* ----------------------------------------------------------- download_cover
\* the image request issued whatever the cover url
CoverUrlAny(r) == TRUE

\* `if cover_url:` of download_cover: missing, null and "" are falsy
CoverUrlSet(r) == r.novel_cover = "url"

\* download_cover's use of the detail response: download is TRUE when the
\* image request is to be issued
CoverDetailBody(r) ==
    IF FetchRaises(r) THEN [exc |-> TRUE, download |-> FALSE]
    ELSE LET c == EnvCheck(r, FALSE) IN
         IF c = "exc" THEN [exc |-> TRUE, download |-> FALSE]
         ELSE IF c = "fail" THEN [exc |-> FALSE, download |-> FALSE]
         ELSE IF r.data # "object" THEN [exc |-> TRUE, download |-> FALSE]
         ELSE [exc |-> FALSE, download |-> CoverUrlSet(r)]

\* outcome of the image request: "error" | "empty" | "bytes"
ImageOutcomes == {"error", "empty", "bytes"}

\* the inner try of download_cover: `if cdata: result_queue.put((self, cdata))`
ImageBody(out) ==
    IF out = "error" THEN [exc |-> TRUE, puts |-> <<>>]
    ELSE IF out = "empty" THEN [exc |-> FALSE, puts |-> <<>>]
    ELSE [exc |-> FALSE, puts |-> <<"cover">>]

\* the timeout of the nested self.identify(log, rq, abort, title=..., authors=...,
\* identifiers=...) call: the argument is not passed on
NestedTimeout(t) == DefaultTimeout

\* the abort check left out
AbortIgnored(ab) == FALSE

\* `if abort.is_set(): return`
AbortCheck(ab) == ab

\* results[-1]
LastResult(results) == results[Len(results)]

\* results[0]
FirstResult(results) == results[1]

\* an outbound request: br.open_novisit(url, timeout=timeout)
Request(kind, id, t) == [kind |-> kind, id |-> id, timeout |-> t]

\* ------------------------------------------------------------------ state
VARIABLES
    pc,             \* position of the running call
    op,             \* "none" | "identify" | "download_cover"
    identifiers,    \* identifiers.get(PROVIDER_ID, None) of the call
    timeout,        \* the call's timeout argument
    abort,          \* the abort event
    abortAtCall,    \* abort.is_set() when the call was made
    result_queue,   \* identify's result_queue
    cover_queue,    \* download_cover's result_queue
    rq,             \* download_cover's private queue for the nested identify
    cp_id,          \* the local cp_id
    cover_url,      \* identify's local cover_url
    reqs,           \* the requests the call has issued, in order
    raised,         \* an exception reached the caller
    detailResp,     \* the answers the call received
    chapResp,
    searchResp,
    imageOut

vars == <<pc, op, identifiers, timeout, abort, abortAtCall, result_queue, cover_queue, rq,
          cp_id, cover_url, reqs, raised, detailResp, chapResp, searchResp, imageOut>>

Init ==
    /\ pc = "idle"
    /\ op = "none"
    /\ identifiers = None
    /\ timeout = DefaultTimeout
    /\ abort = FALSE
    /\ abortAtCall = FALSE
    /\ result_queue = <<>>
    /\ cover_queue = <<>>
    /\ rq = <<>>
    /\ cp_id = None
    /\ cover_url = "nocover"
    /\ reqs = <<>>
    /\ raised = FALSE
    /\ detailResp = NoDetail
    /\ chapResp = NoChapters
    /\ searchResp = NoSearch
    /\ imageOut = "none"

\* identify(log, result_queue, abort, identifiers=..., timeout=t) is called
CallIdentify(id, t, ab) ==
    /\ pc = "idle"
    /\ op' = "identify"
    /\ identifiers' = id
    /\ cp_id' = id
    /\ timeout' = t
    /\ abort' = ab
    /\ abortAtCall' = ab
    /\ pc' = IF Truthy(id) THEN "id_detail" ELSE "id_search"
    /\ UNCHANGED <<result_queue, cover_queue, rq, cover_url, reqs, raised,
                   detailResp, chapResp, searchResp, imageOut>>

\* identify, id branch: the detail request and the use of its answer
IdentifyDetail(r) ==
    /\ pc = "id_detail"
    /\ reqs' = Append(reqs, Request("detail", cp_id, timeout))
    /\ detailResp' = r
    /\ LET b == LookupDetailBody(r) IN
       IF b.ok
       THEN /\ cover_url' = b.cover
            /\ pc' = "id_chapters"
            /\ UNCHANGED raised
       ELSE /\ raised' = Catch(b).exc
            /\ pc' = "done"
            /\ UNCHANGED cover_url
    /\ UNCHANGED <<op, identifiers, timeout, abort, abortAtCall, result_queue, cover_queue,
                   rq, cp_id, chapResp, searchResp, imageOut>>

\* identify, id branch: the chapter list request, the record and the put
IdentifyChapters(r) ==
    /\ pc = "id_chapters"
    /\ reqs' = Append(reqs, Request("chapters", cp_id, timeout))
    /\ chapResp' = r
    /\ LET d == get_first_chapter_publish_date(r)
           b == IF d.exc THEN [exc |-> TRUE, puts |-> <<>>]
                ELSE [exc |-> FALSE, puts |-> <<LookupRecord(cp_id, cover_url, d.val)>>]
           c == Catch(b)
       IN /\ result_queue' = result_queue \o c.puts
          /\ raised' = c.exc
    /\ pc' = "done"
    /\ UNCHANGED <<op, identifiers, timeout, abort, abortAtCall, cover_queue, rq, cp_id,
                   cover_url, detailResp, searchResp, imageOut>>

\* identify, search branch
IdentifySearchStep(r) ==
    /\ pc = "id_search"
    /\ reqs' = Append(reqs, Request("search", None, timeout))
    /\ searchResp' = r
    /\ LET c == IdentifySearch(r)
       IN /\ result_queue' = result_queue \o c.puts
          /\ raised' = c.exc
    /\ pc' = "done"
    /\ UNCHANGED <<op, identifiers, timeout, abort, abortAtCall, cover_queue, rq, cp_id,
                   cover_url, detailResp, chapResp, imageOut>>

\* download_cover(log, result_queue, abort, identifiers=..., timeout=t) is called
CallDownloadCover(id, t, ab) ==
    /\ pc = "idle"
    /\ op' = "download_cover"
    /\ identifiers' = id
    /\ cp_id' = id
    /\ timeout' = t
    /\ abort' = ab
    /\ abortAtCall' = ab
    /\ pc' = IF id = None THEN "cv_identify" ELSE "cv_detail"
    /\ UNCHANGED <<result_queue, cover_queue, rq, cover_url, reqs, raised,
                   detailResp, chapResp, searchResp, imageOut>>

\* download_cover without an id: the nested identify, which takes its search
\* branch because identifiers holds no id
CoverIdentify(r) ==
    /\ pc = "cv_identify"
    /\ reqs' = Append(reqs, Request("search", None, NestedTimeout(timeout)))
    /\ searchResp' = r
    /\ LET c == IdentifySearch(r)
       IN /\ rq' = rq \o c.puts
          /\ raised' = c.exc
          /\ pc' = IF c.exc THEN "done" ELSE "cv_check"
    /\ UNCHANGED <<op, identifiers, timeout, abort, abortAtCall, result_queue, cover_queue,
                   cp_id, cover_url, detailResp, chapResp, imageOut>>

\* download_cover after the nested identify: the abort check, the drain of
\* rq and the choice of the id
CoverResolve ==
    /\ pc = "cv_check"
    /\ IF AbortCheck(abort) THEN /\ pc' = "done"
                                 /\ UNCHANGED cp_id
       ELSE IF Len(rq) = 0 THEN /\ pc' = "done"
                                /\ UNCHANGED cp_id
       ELSE /\ cp_id' = FirstResult(rq).id
            /\ pc' = IF FirstResult(rq).id = None THEN "done" ELSE "cv_detail"
    /\ UNCHANGED <<op, identifiers, timeout, abort, abortAtCall, result_queue, cover_queue,
                   rq, cover_url, reqs, raised, detailResp, chapResp, searchResp, imageOut>>

\* download_cover: the detail request
CoverDetail(r) ==
    /\ pc = "cv_detail"
    /\ reqs' = Append(reqs, Request("detail", cp_id, timeout))
    /\ detailResp' = r
    /\ LET b == CoverDetailBody(r) IN
       IF b.download
       THEN /\ pc' = "cv_image"
            /\ UNCHANGED raised
       ELSE /\ pc' = "done"
            /\ raised' = Catch(b).exc
    /\ UNCHANGED <<op, identifiers, timeout, abort, abortAtCall, result_queue, cover_queue,
                   rq, cp_id, cover_url, chapResp, searchResp, imageOut>>

\* download_cover: the image request
CoverImage(out) ==
    /\ pc = "cv_image"
    /\ reqs' = Append(reqs, Request("image", None, timeout))
    /\ imageOut' = out
    /\ LET c == Catch(Catch(ImageBody(out)))
       IN /\ cover_queue' = cover_queue \o c.puts
          /\ raised' = c.exc
    /\ pc' = "done"
    /\ UNCHANGED <<op, identifiers, timeout, abort, abortAtCall, result_queue, rq, cp_id,
                   cover_url, detailResp, chapResp, searchResp>>

\* the host sets the abort event while a call runs
SetAbort ==
    /\ pc \notin {"idle", "done"}
    /\ ~abort
    /\ abort' = TRUE
    /\ UNCHANGED <<pc, op, identifiers, timeout, abortAtCall, result_queue, cover_queue, rq,
                   cp_id, cover_url, reqs, raised, detailResp, chapResp, searchResp, imageOut>>

\* the call has returned; the next call gets fresh queues and a fresh event
Return ==
    /\ pc = "done"
    /\ pc' = "idle"
    /\ op' = "none"
    /\ identifiers' = None
    /\ timeout' = DefaultTimeout
    /\ abort' = FALSE
    /\ abortAtCall' = FALSE
    /\ result_queue' = <<>>
    /\ cover_queue' = <<>>
    /\ rq' = <<>>
    /\ cp_id' = None
    /\ cover_url' = "nocover"
    /\ reqs' = <<>>
    /\ raised' = FALSE
    /\ detailResp' = NoDetail
    /\ chapResp' = NoChapters
    /\ searchResp' = NoSearch
    /\ imageOut' = "none"

Next ==
    \/ \E id \in CallerIds, t \in Timeouts, ab \in BOOLEAN : CallIdentify(id, t, ab)
    \/ \E r \in DetailResps : IdentifyDetail(r)
    \/ \E r \in ChapterResps : IdentifyChapters(r)
    \/ \E r \in SearchResps : IdentifySearchStep(r)
    \/ \E id \in CallerIds, t \in Timeouts, ab \in BOOLEAN : CallDownloadCover(id, t, ab)
    \/ \E r \in SearchResps : CoverIdentify(r)
    \/ CoverResolve
    \/ \E r \in DetailResps : CoverDetail(r)
    \/ \E out \in ImageOutcomes : CoverImage(out)
    \/ SetAbort
    \/ Return

Spec == Init /\ [][Next]_vars

\* ------------------------------------------------------------- properties
TypeOK ==
    /\ pc \in {"idle", "id_detail", "id_chapters", "id_search",
               "cv_identify", "cv_check", "cv_detail", "cv_image", "done"}
    /\ op \in {"none", "identify", "download_cover"}
    /\ identifiers \in CallerIds
    /\ timeout \in Timeouts
    /\ abort \in BOOLEAN /\ abortAtCall \in BOOLEAN /\ raised \in BOOLEAN
    /\ Len(reqs) <= 3

\* number of requests of a kind the call has issued
CountReq(kind) == Cardinality({i \in DOMAIN reqs : reqs[i].kind = kind})

Min(S) == CHOOSE x \in S : \A y \in S : x <= y

\* a response with code 200 and a data object
Successful(r) == r.net = "ok" /\ r.json = "object" /\ r.code = SuccessCode /\ r.data = "object"

LookupReturned == pc = "done" /\ op = "identify" /\ Truthy(identifiers)
SearchReturned == pc = "done" /\ op = "identify" /\ ~Truthy(identifiers)

\* C1: a Lookup-by-ID call whose detail response has code 200 and a data
\* payload leaves exactly one record in the sink, and the record's id is the
\* call's id.
C1_LookupOneRecord ==
    (LookupReturned /\ Successful(detailResp))
        => /\ Len(result_queue) = 1
           /\ result_queue[1].id = identifiers

C1_Witness ==
    /\ LookupReturned /\ Successful(detailResp)
    /\ identifiers = StrId(MaxId)
    /\ Len(result_queue) = 1

\* a search hit that has an id
HasId(book) == book.kind = "object" /\ Truthy(book.novel_id)

\* the ids of the upstream list's entries that have one, in list order
UpstreamIds(list) ==
    LET kept == SelectSeq(list, HasId) IN [i \in DOMAIN kept |-> Str(kept[i].novel_id)]

QueueIds(q) == [i \in DOMAIN q |-> q[i].id]

\* C2: after a Search-by-Title call the sink holds, in upstream order, one
\* record for every entry of the upstream list that has an id, and nothing
\* else.
C2_SearchKeepsOrder ==
    (SearchReturned /\ Successful(searchResp) /\ searchResp.hasList)
        => QueueIds(result_queue) = UpstreamIds(searchResp.list)

\* the same for answers of the shape the search loop reads without raising:
\* a count next to the list, every entry an object, no null cover
WellFormedSearch(r) ==
    /\ Successful(r) /\ r.hasList /\ r.hasCount
    /\ \A i \in DOMAIN r.list : r.list[i].kind = "object" /\ r.list[i].novel_cover # "null"

SearchKeepsOrderWellFormed ==
    (SearchReturned /\ WellFormedSearch(searchResp))
        => QueueIds(result_queue) = UpstreamIds(searchResp.list)

\* C3: no call lets an exception reach its caller, whatever the requests
\* answer.
C3_NeverRaises == ~raised

C3_Witness ==
    /\ pc = "done" /\ op = "download_cover" /\ identifiers = None
    /\ imageOut = "error" /\ ~raised

\* the call met a TransportError, a MalformedResponse or an UpstreamFailure
LookupFailed(r) == ~Successful(r)
SearchFailed(r) ==
    \/ ~Successful(r)
    \/ ~r.hasList
    \/ \E i \in DOMAIN r.list : r.list[i].kind = "junk"

\* C4: a Lookup-by-ID or Search-by-Title call that meets a transport error,
\* a malformed response or an upstream failure leaves the sink empty.
C4_FailureProducesNothing ==
    /\ (LookupReturned /\ LookupFailed(detailResp)) => result_queue = <<>>
    /\ (SearchReturned /\ SearchFailed(searchResp)) => result_queue = <<>>

\* C5: Cover-Fetch with an id issues exactly one detail request, at most one
\* image request and no search; the image request follows a detail response
\* with code 200, a data payload and a non-empty cover url.
C5_CoverWithId ==
    (op = "download_cover" /\ identifiers # None)
        => /\ CountReq("search") = 0
           /\ CountReq("chapters") = 0
           /\ CountReq("detail") <= 1
           /\ CountReq("image") <= 1
           /\ pc \in {"cv_image", "done"} => CountReq("detail") = 1
           /\ \A i \in DOMAIN reqs : reqs[i].kind = "image" =>
                  /\ i = 2 /\ reqs[1].kind = "detail"
                  /\ Successful(detailResp) /\ detailResp.novel_cover = "url"

C5_Witness ==
    /\ pc = "done" /\ op = "download_cover" /\ identifiers = StrId(1)
    /\ CountReq("detail") = 1 /\ CountReq("image") = 1
    /\ cover_queue # <<>>

\* C6: Cover-Fetch without an id uses the id of the first record of the
\* nested search, which is the first upstream entry that has an id; when the
\* nested search gives no record it issues no detail and no image request,
\* puts nothing in the sink and does not raise.
C6_CoverWithoutId ==
    (op = "download_cover" /\ identifiers = None)
        => /\ \A i \in DOMAIN reqs : reqs[i].kind = "detail" =>
                  /\ rq # <<>>
                  /\ reqs[i].id = rq[1].id
                  /\ UpstreamIds(searchResp.list) # <<>>
                  /\ reqs[i].id = UpstreamIds(searchResp.list)[1]
           /\ (pc = "done" /\ rq = <<>>) =>
                  /\ CountReq("detail") = 0 /\ CountReq("image") = 0
                  /\ cover_queue = <<>>
                  /\ ~raised

C6_Witness ==
    /\ pc = "done" /\ op = "download_cover" /\ identifiers = None
    /\ Len(rq) = 2 /\ rq[1].id # rq[2].id
    /\ CountReq("detail") = 1

\* C7 as stated: when the abort flag is set at the call, Cover-Fetch without
\* an id returns without issuing any request.
C7_AbortBeforeIdentify ==
    (op = "download_cover" /\ identifiers = None /\ abortAtCall) => reqs = <<>>

\* C7 amended: the flag is looked at after the nested identify has returned;
\* with the flag set at the call, Cover-Fetch without an id issues the search
\* request and no other request.
C7_AbortAfterIdentify ==
    (pc = "done" /\ op = "download_cover" /\ identifiers = None /\ abortAtCall)
        => /\ Len(reqs) = 1
           /\ reqs[1].kind = "search"
           /\ cover_queue = <<>>

C7_Witness ==
    /\ pc = "done" /\ op = "download_cover" /\ identifiers = None /\ abortAtCall
    /\ rq # <<>>
    /\ Len(reqs) = 1

\* C8: every request of a call carries the timeout the caller passed.
C8_UniformTimeout ==
    \A i \in DOMAIN reqs : reqs[i].timeout = timeout

\* the chapter list reached the scan and every entry is a chapter object
ChapterListRead(r) ==
    /\ Successful(r) /\ r.hasList
    /\ \A i \in DOMAIN r.list : r.list[i].kind = "object"

\* the entry the rule names: the first order "1" item, else the first item,
\* else none (0)
RuleIndex(list) ==
    LET first == {i \in DOMAIN list : list[i].order = "1" /\ list[i].type = "item"}
        items == {i \in DOMAIN list : list[i].type = "item"}
    IN IF first # {} THEN Min(first) ELSE IF items # {} THEN Min(items) ELSE 0

\* a text of the form YYYY-MM-DD HH:MM:SS naming a day that exists
WellFormedDate(d) ==
    /\ d.sep = "-"
    /\ d.mon >= 1 /\ d.mon <= 12
    /\ d.day >= 1 /\ d.day <= DaysIn(d.mon)

RuleDate(list) ==
    LET k == RuleIndex(list) IN
    IF k # 0 /\ WellFormedDate(list[k].public_date)
    THEN [mon |-> list[k].public_date.mon, day |-> list[k].public_date.day]
    ELSE NoDate

\* C9: the publish date comes from the first entry with order "1" and type
\* "item", else from the first entry of type "item", and is unset when the
\* list has no item.
C9_FirstChapterRule ==
    (LookupReturned /\ Successful(detailResp) /\ ChapterListRead(chapResp))
        => /\ Len(result_queue) = 1
           /\ result_queue[1].pubdate = RuleDate(chapResp.list)

C9_Witness ==
    /\ LookupReturned /\ Successful(detailResp) /\ ChapterListRead(chapResp)
    /\ Len(chapResp.list) = 2
    /\ chapResp.list[1].order = "1" /\ chapResp.list[1].type = "volume"
    /\ chapResp.list[2].order = "2" /\ chapResp.list[2].type = "item"
    /\ Len(result_queue) = 1
    /\ result_queue[1].pubdate = [mon |-> 2, day |-> 7]

\* the chapter request failed, or gave no usable timestamp
EnrichmentFailed(r) ==
    \/ ~Successful(r)
    \/ ~r.hasList
    \/ r.list = <<>>
    \/ /\ ChapterListRead(r)
       /\ \/ RuleIndex(r.list) = 0
          \/ ~WellFormedDate(r.list[RuleIndex(r.list)].public_date)

\* C10: with a successful detail response, a failed enrichment still leaves
\* exactly one record, whose publish date is unset.
C10_EnrichmentNeverFails ==
    (LookupReturned /\ Successful(detailResp) /\ EnrichmentFailed(chapResp))
        => /\ Len(result_queue) = 1
           /\ result_queue[1].pubdate = NoDate
           /\ ~raised

C10_Witness ==
    /\ LookupReturned /\ Successful(detailResp)
    /\ FetchRaises(chapResp)
    /\ Len(result_queue) = 1
    /\ result_queue[1].pubdate = NoDate

====
